---- MODULE Spec2Model ----
(***************************************************************************)
(* A model of gioui.org/gpu/headless (src/gpu/headless/headless.go) and of *)
(* the operation encoders of gioui.org/io/pointer (src/unnamed/part_000).  *)
(*                                                                         *)
(* Headless part: a Window owns a context, a device, a renderer (gpu) and  *)
(* an offscreen texture.  Every GPU-touching piece of work goes through    *)
(* contextDo, which starts a goroutine (the worker), makes the context     *)
(* current on it, runs the work, releases the current context and hands    *)
(* the error to the caller over an unbuffered channel.  Callers are the    *)
(* goroutines of the client program that call NewWindow, Frame, Screenshot *)
(* and Release.  A nil dereference panics and ends the whole program.      *)
(***************************************************************************)
EXTENDS Integers, Sequences, FiniteSets, TLC

\* The caller goroutines of the client program.
Callers == {"A", "B"}

\* Bound: the number of Frame/Screenshot/Release calls issued on the Window.
MaxCalls == 3

\* The (width, height) arguments NewWindow is called with.
Sizes == {<<4, 4>>, <<1, 2>>}

NilErr == "nil"
Nil == "nil"

\* errors.New("x11: no available GPU backends")
ErrNoBackend == "x11: no available GPU backends"

\* The error a failing context strategy returns, and the context a
\* succeeding one returns.
ErrOf(f) == IF f = "primary" THEN "errPrimary" ELSE "errFallback"
CtxOf(f) == IF f = "primary" THEN "ctxPrimary" ELSE "ctxFallback"

Strategies == {"primary", "fallback"}
Outcomes == [Strategies -> {"ok", "fail"}]

VARIABLES
    newContextPrimary,   \* package variable: Nil or "primary"
    newContextFallback,  \* package variable: Nil or "fallback"
    nc,        \* the newContext call made by NewWindow: outcomes and result
    nw,        \* NewWindow: [state, w, err], its progress and what it returned
    w,         \* the Window's fields: size, ctx, dev, gpu, fboTex
    made,      \* the resources created so far
    relCount,  \* how many times Release() was called on each resource
    failStep,  \* the construction step of NewWindow that failed, or "none"
    cpc,       \* per caller: where the caller is
    wpc,       \* per caller: where the worker goroutine of its contextDo is
    op,        \* per caller: the operation of its current (or last) call
    ctxArg,    \* per caller: the ctx argument contextDo was called with
    cur,       \* per caller: the worker has the context current
    werr,      \* per caller: the error the worker will send
    ret,       \* per caller: the error contextDo returned to the caller
    ran,       \* per caller: how many times the work function ran in the call
    ncalls,    \* number of Frame/Screenshot/Release calls issued
    panicked,  \* "none", or the place of the panic that ended the program
    log,       \* the creations and releases of resources, in their order
    ops,       \* the operation buffer op.Ops: its data records and its refs
    opsPanic,  \* "none", or the message of the panic of an encoder
    lastAdd,   \* the last InputOp.Add call: its receiver, the buffer before
    stacks,    \* per stack kind of the buffer: nextID and currentID
    handles,   \* the AreaStack and PassStack values the Push calls returned
    decls,     \* per record of the buffer: the receiver of the call that wrote it
    lastPop,   \* the last Pop call: its receiver, the buffer and stacks before
    popped,    \* the stack values whose Pop returned
    hit        \* the outcome of resolving a Scroll event against the buffer

hvars == <<newContextPrimary, newContextFallback, nc, nw, w, made, relCount,
           failStep, cpc, wpc, op, ctxArg, cur, werr, ret, ran, ncalls,
           panicked, log>>

ovars == <<ops, opsPanic, lastAdd, stacks, handles, decls, lastPop, popped,
           hit>>

vars == <<hvars, ovars>>

\* What no step of contextDo and no work function touches.
cfgNoLog == <<newContextPrimary, newContextFallback, nc, ovars>>
cfgVars == <<cfgNoLog, log>>
callVars == <<cpc, op, ctxArg, ret, ncalls>>

Res == {"ctx", "dev", "tex", "gpu"}

Live(r) == r \in made /\ relCount[r] = 0

----------------------------------------------------------------------------
(* newContext, headless.go:39-59 *)

RECURSIVE newContextLoop(_, _, _, _, _)
newContextLoop(funcs, outs, i, firstErr, invoked) ==
    IF i > Len(funcs)
    THEN IF firstErr # NilErr
         THEN [ctx |-> Nil, err |-> firstErr, invoked |-> invoked]
         ELSE [ctx |-> Nil, err |-> ErrNoBackend, invoked |-> invoked]
    ELSE IF funcs[i] = Nil
    THEN newContextLoop(funcs, outs, i + 1, firstErr, invoked)
    ELSE IF outs[funcs[i]] = "fail"
    THEN newContextLoop(funcs, outs, i + 1,
                        IF firstErr = NilErr THEN ErrOf(funcs[i]) ELSE firstErr,
                        Append(invoked, funcs[i]))
    ELSE [ctx |-> CtxOf(funcs[i]), err |-> NilErr,
          invoked |-> Append(invoked, funcs[i])]

\* Mutants of newContext: "stop" gives up at the first failing strategy,
\* "last" reports the last failure instead of the first.
RECURSIVE newContextLoopMutant(_, _, _, _, _, _)
newContextLoopMutant(mode, funcs, outs, i, firstErr, invoked) ==
    IF i > Len(funcs)
    THEN IF firstErr # NilErr
         THEN [ctx |-> Nil, err |-> firstErr, invoked |-> invoked]
         ELSE [ctx |-> Nil, err |-> ErrNoBackend, invoked |-> invoked]
    ELSE IF funcs[i] = Nil
    THEN newContextLoopMutant(mode, funcs, outs, i + 1, firstErr, invoked)
    ELSE IF outs[funcs[i]] = "fail"
    THEN IF mode = "stop"
         THEN [ctx |-> Nil, err |-> ErrOf(funcs[i]),
               invoked |-> Append(invoked, funcs[i])]
         ELSE newContextLoopMutant(mode, funcs, outs, i + 1, ErrOf(funcs[i]),
                                   Append(invoked, funcs[i]))
    ELSE [ctx |-> CtxOf(funcs[i]), err |-> NilErr,
          invoked |-> Append(invoked, funcs[i])]

newContextStopAtFirstError(funcs, outs) ==
    newContextLoopMutant("stop", funcs, outs, 1, NilErr, <<>>)

newContextLastError(funcs, outs) ==
    newContextLoopMutant("last", funcs, outs, 1, NilErr, <<>>)

newContext(funcs, outs) == newContextLoop(funcs, outs, 1, NilErr, <<>>)

----------------------------------------------------------------------------
(* contextDo, headless.go:150-164 *)

\* Mutants of contextDoOrder: the error is sent before ReleaseCurrent; and
\* ReleaseCurrent is forgotten.
contextDoOrderSendEarly == <<"MakeCurrent", "f", "send", "ReleaseCurrent">>

contextDoOrderNoReleaseCurrent == <<"MakeCurrent", "f", "send">>

\* The order of the worker's steps when MakeCurrent succeeds.
contextDoOrder == <<"MakeCurrent", "f", "ReleaseCurrent", "send">>

IndexOf(s, x) == CHOOSE i \in 1..Len(s) : s[i] = x

\* Mutant of ReleaseOrder: the device is released first.
ReleaseOrderDevFirst == <<"dev", "gpu", "fboTex">>

\* Mutant of ReleaseOrder: the renderer is released before the texture.
ReleaseOrderGpuFirst == <<"gpu", "fboTex", "dev">>

\* The fields the work function of Window.Release (headless.go:106-121)
\* releases, in its order.
ReleaseOrder == <<"fboTex", "gpu", "dev">>

FieldRes(f) == CASE f = "fboTex" -> "tex" [] f = "gpu" -> "gpu" [] f = "dev" -> "dev"
RelLbl(f) == CASE f = "fboTex" -> "relTex" [] f = "gpu" -> "relGpu" [] f = "dev" -> "relDev"
NilLbl(f) == CASE f = "fboTex" -> "nilTex" [] f = "gpu" -> "nilGpu" [] f = "dev" -> "nilDev"

\* The first label of the work function of each operation.
BodyStart(o) ==
    CASE o = "NewWindow" -> "NewDevice"
      [] o = "Release" -> RelLbl(ReleaseOrder[1])
      [] o = "Frame" -> "Clear"
      [] o = "Screenshot" -> "DownloadImage"

\* Where the worker goes after finishing step x of contextDo.
After(x, o) ==
    LET i == IndexOf(contextDoOrder, x) IN
    IF i = Len(contextDoOrder) THEN "exit"
    ELSE IF contextDoOrder[i + 1] = "f" THEN BodyStart(o)
    ELSE contextDoOrder[i + 1]

Alive == panicked = "none"

\* contextDo(ctx, f) called by caller t for operation o: the channel is made,
\* the goroutine is started and the caller blocks on the receive.
Spawn(t, o, ctx) ==
    /\ cpc' = [cpc EXCEPT ![t] = "wait"]
    /\ wpc' = [wpc EXCEPT ![t] = "MakeCurrent"]
    /\ op' = [op EXCEPT ![t] = o]
    /\ ctxArg' = [ctxArg EXCEPT ![t] = ctx]
    /\ werr' = [werr EXCEPT ![t] = NilErr]
    /\ ret' = [ret EXCEPT ![t] = NilErr]
    /\ ran' = [ran EXCEPT ![t] = 0]

\* Mutant of MakeCurrent: after a failed activation the worker returns
\* without sending the error.
MakeCurrentNoSend(t) ==
    /\ Alive
    /\ wpc[t] = "MakeCurrent"
    /\ IF ctxArg[t] = Nil
       THEN /\ panicked' = op[t]
            /\ UNCHANGED <<wpc, cur, werr>>
       ELSE /\ \E ok \in BOOLEAN :
                 IF ok
                 THEN /\ cur' = [cur EXCEPT ![t] = TRUE]
                      /\ wpc' = [wpc EXCEPT ![t] = After("MakeCurrent", op[t])]
                      /\ UNCHANGED werr
                 ELSE /\ werr' = [werr EXCEPT ![t] = "errMakeCurrent"]
                      /\ wpc' = [wpc EXCEPT ![t] = "exit"]
                      /\ UNCHANGED cur
            /\ UNCHANGED panicked
    /\ UNCHANGED <<cfgVars, callVars, nw, w, made, relCount, failStep, ran>>

\* Mutant of MakeCurrent: after a failed activation the worker goes on to
\* the work function instead of sending the error and returning.
MakeCurrentNoReturn(t) ==
    /\ Alive
    /\ wpc[t] = "MakeCurrent"
    /\ IF ctxArg[t] = Nil
       THEN /\ panicked' = op[t]
            /\ UNCHANGED <<wpc, cur, werr>>
       ELSE /\ \E ok \in BOOLEAN :
                 IF ok
                 THEN /\ cur' = [cur EXCEPT ![t] = TRUE]
                      /\ wpc' = [wpc EXCEPT ![t] = After("MakeCurrent", op[t])]
                      /\ UNCHANGED werr
                 ELSE /\ werr' = [werr EXCEPT ![t] = "errMakeCurrent"]
                      /\ wpc' = [wpc EXCEPT ![t] = After("MakeCurrent", op[t])]
                      /\ UNCHANGED cur
            /\ UNCHANGED panicked
    /\ UNCHANGED <<cfgVars, callVars, nw, w, made, relCount, failStep, ran>>

\* ctx.MakeCurrent() on the worker; a nil ctx is a nil dereference.
MakeCurrent(t) ==
    /\ Alive
    /\ wpc[t] = "MakeCurrent"
    /\ IF ctxArg[t] = Nil
       THEN /\ panicked' = op[t]
            /\ UNCHANGED <<wpc, cur, werr>>
       ELSE /\ \E ok \in BOOLEAN :
                 IF ok
                 THEN /\ cur' = [cur EXCEPT ![t] = TRUE]
                      /\ wpc' = [wpc EXCEPT ![t] = After("MakeCurrent", op[t])]
                      /\ UNCHANGED werr
                 ELSE /\ werr' = [werr EXCEPT ![t] = "errMakeCurrent"]
                      /\ wpc' = [wpc EXCEPT ![t] = "sendErr"]
                      /\ UNCHANGED cur
            /\ UNCHANGED panicked
    /\ UNCHANGED <<cfgVars, callVars, nw, w, made, relCount, failStep, ran>>

\* The work function returns e: err := f().
BodyEnd(t, e) ==
    /\ werr' = [werr EXCEPT ![t] = e]
    /\ ran' = [ran EXCEPT ![t] = @ + 1]
    /\ wpc' = [wpc EXCEPT ![t] = After("f", op[t])]

\* ctx.ReleaseCurrent() on the worker.
ReleaseCurrent(t) ==
    /\ Alive
    /\ wpc[t] = "ReleaseCurrent"
    /\ cur' = [cur EXCEPT ![t] = FALSE]
    /\ wpc' = [wpc EXCEPT ![t] = After("ReleaseCurrent", op[t])]
    /\ UNCHANGED <<cfgVars, callVars, nw, w, made, relCount, failStep, werr,
                   ran, panicked>>

\* errCh <- err on the worker meets <-errCh on the caller (unbuffered).
Send(t) ==
    /\ Alive
    /\ wpc[t] \in {"send", "sendErr"}
    /\ cpc[t] = "wait"
    /\ ret' = [ret EXCEPT ![t] = werr[t]]
    /\ cpc' = [cpc EXCEPT ![t] = "post"]
    /\ wpc' = [wpc EXCEPT ![t] = IF wpc[t] = "sendErr" THEN "exit"
                                 ELSE After("send", op[t])]
    /\ UNCHANGED <<cfgVars, nw, w, made, relCount, failStep, op, ctxArg, cur,
                   werr, ran, ncalls, panicked>>

----------------------------------------------------------------------------
(* NewWindow, headless.go:62-102 *)

RelInc(r) == [relCount EXCEPT ![r] = IF @ < 2 THEN @ + 1 ELSE @]

\* The step of call t created or released a resource: the event is logged
\* with the operation and the number of the call, and with whether the
\* worker of the call has the context current.
LogStep(t) ==
    LET created == made' \ made
        released == {r \in Res : relCount'[r] > relCount[r]}
        Event(ev, rs) == IF rs = {} THEN <<>>
                         ELSE <<[ev |-> ev, r |-> CHOOSE r \in rs : TRUE,
                                 active |-> cur[t], op |-> op'[t],
                                 call |-> ncalls]>>
    IN log' = log \o Event("create", created) \o Event("release", released)

\* ctx, err := newContext(); on success the Window is allocated and the
\* construction work is handed to contextDo.
CallNewWindow(t) ==
    /\ Alive
    /\ nw.state = "none"
    /\ cpc[t] = "idle"
    /\ \E size \in Sizes, outs \in Outcomes :
         LET r == newContext(<<newContextPrimary, newContextFallback>>, outs) IN
         /\ nc' = [called |-> TRUE, outs |-> outs, res |-> r]
         /\ IF r.err # NilErr
            THEN /\ nw' = [state |-> "returned", w |-> Nil, err |-> r.err]
                 /\ failStep' = "context"
                 /\ UNCHANGED <<w, made, cpc, wpc, op, ctxArg, werr, ret, ran>>
            ELSE /\ w' = [size |-> size, ctx |-> r.ctx, dev |-> Nil,
                          gpu |-> Nil, fboTex |-> Nil]
                 /\ made' = made \cup {"ctx"}
                 /\ nw' = [nw EXCEPT !.state = "running"]
                 /\ Spawn(t, "NewWindow", r.ctx)
                 /\ UNCHANGED failStep
    /\ UNCHANGED <<newContextPrimary, newContextFallback, relCount, cur,
                   ncalls, panicked, ovars>>
    /\ LogStep(t)

\* dev, err := driver.NewDevice(api); if err != nil { return err }
NewDevice(t) ==
    /\ Alive
    /\ wpc[t] = "NewDevice"
    /\ \E ok \in BOOLEAN :
         IF ok
         THEN /\ made' = made \cup {"dev"}
              /\ wpc' = [wpc EXCEPT ![t] = "NewTexture"]
              /\ UNCHANGED <<failStep, werr, ran>>
         ELSE /\ failStep' = "device"
              /\ BodyEnd(t, "errNewDevice")
              /\ UNCHANGED made
    /\ UNCHANGED <<cfgNoLog, callVars, nw, w, relCount, cur, panicked>>
    /\ LogStep(t)

\* fboTex, err := dev.NewTexture(...); if err != nil { return nil }
NewTexture(t) ==
    /\ Alive
    /\ wpc[t] = "NewTexture"
    /\ \E ok \in BOOLEAN :
         IF ok
         THEN /\ made' = made \cup {"tex"}
              /\ wpc' = [wpc EXCEPT ![t] = "gpuNew"]
              /\ UNCHANGED <<failStep, werr, ran>>
         ELSE /\ failStep' = "texture"
              /\ BodyEnd(t, NilErr)
              /\ UNCHANGED made
    /\ UNCHANGED <<cfgNoLog, callVars, nw, w, relCount, cur, panicked>>
    /\ LogStep(t)

\* gp, err := gpu.New(api); a failure goes on to release fboTex and dev.
GpuNew(t) ==
    /\ Alive
    /\ wpc[t] = "gpuNew"
    /\ \E ok \in BOOLEAN :
         IF ok
         THEN /\ made' = made \cup {"gpu"}
              /\ wpc' = [wpc EXCEPT ![t] = "assign"]
              /\ UNCHANGED failStep
         ELSE /\ failStep' = "renderer"
              /\ wpc' = [wpc EXCEPT ![t] = "failRelTex"]
              /\ UNCHANGED made
    /\ UNCHANGED <<cfgNoLog, callVars, nw, w, relCount, cur, werr, ran, panicked>>
    /\ LogStep(t)

\* fboTex.Release() on the failure path of gpu.New
FailRelTex(t) ==
    /\ Alive
    /\ wpc[t] = "failRelTex"
    /\ relCount' = RelInc("tex")
    /\ wpc' = [wpc EXCEPT ![t] = "failRelDev"]
    /\ UNCHANGED <<cfgNoLog, callVars, nw, w, made, failStep, cur, werr, ran,
                   panicked>>
    /\ LogStep(t)

\* dev.Release(); return err on the failure path of gpu.New
FailRelDev(t) ==
    /\ Alive
    /\ wpc[t] = "failRelDev"
    /\ relCount' = RelInc("dev")
    /\ BodyEnd(t, "errGpuNew")
    /\ UNCHANGED <<cfgNoLog, callVars, nw, w, made, failStep, cur, panicked>>
    /\ LogStep(t)

\* w.fboTex = fboTex; w.gpu = gp; w.dev = dev; return err (err is nil here)
Assign(t) ==
    /\ Alive
    /\ wpc[t] = "assign"
    /\ w' = [w EXCEPT !.fboTex = "tex", !.gpu = "gpu", !.dev = "dev"]
    /\ BodyEnd(t, NilErr)
    /\ UNCHANGED <<cfgVars, callVars, nw, made, relCount, failStep, cur,
                   panicked>>

\* if err != nil { ctx.Release(); return nil, err }; return w, nil
NewWindowReturn(t) ==
    /\ Alive
    /\ cpc[t] = "post"
    /\ op[t] = "NewWindow"
    /\ IF ret[t] # NilErr
       THEN /\ relCount' = RelInc("ctx")
            /\ nw' = [state |-> "returned", w |-> Nil, err |-> ret[t]]
       ELSE /\ nw' = [state |-> "returned", w |-> "w", err |-> NilErr]
            /\ UNCHANGED relCount
    /\ failStep' = IF ret[t] = "errMakeCurrent" THEN "activate" ELSE failStep
    /\ cpc' = [cpc EXCEPT ![t] = "idle"]
    /\ UNCHANGED <<cfgNoLog, w, made, wpc, op, ctxArg, cur, werr, ret, ran,
                   ncalls, panicked>>
    /\ LogStep(t)

----------------------------------------------------------------------------
(* Window.Release, headless.go:105-125 *)

\* The worker is done with field i of ReleaseOrder: on to the next field, or
\* return nil.
ReleaseNext(t, i) ==
    IF i = Len(ReleaseOrder)
    THEN BodyEnd(t, NilErr)
    ELSE /\ wpc' = [wpc EXCEPT ![t] = RelLbl(ReleaseOrder[i + 1])]
         /\ UNCHANGED <<werr, ran>>

\* if w.f != nil { w.f.Release() ...
ReleaseField(t) ==
    /\ Alive
    /\ \E i \in 1..Len(ReleaseOrder) :
         LET f == ReleaseOrder[i] IN
         /\ wpc[t] = RelLbl(f)
         /\ IF w[f] # Nil
            THEN /\ relCount' = RelInc(FieldRes(f))
                 /\ wpc' = [wpc EXCEPT ![t] = NilLbl(f)]
                 /\ UNCHANGED <<werr, ran>>
            ELSE /\ ReleaseNext(t, i)
                 /\ UNCHANGED relCount
    /\ UNCHANGED <<cfgNoLog, callVars, nw, w, made, failStep, cur, panicked>>
    /\ LogStep(t)

\* ... w.f = nil }
NilField(t) ==
    /\ Alive
    /\ \E i \in 1..Len(ReleaseOrder) :
         LET f == ReleaseOrder[i] IN
         /\ wpc[t] = NilLbl(f)
         /\ w' = [w EXCEPT ![f] = Nil]
         /\ ReleaseNext(t, i)
    /\ UNCHANGED <<cfgVars, callVars, nw, made, relCount, failStep, cur,
                   panicked>>

\* After contextDo returned (its error is dropped):
\* if w.ctx != nil { w.ctx.Release() ...
ReleaseCtx(t) ==
    /\ Alive
    /\ cpc[t] = "post"
    /\ op[t] = "Release"
    /\ IF w.ctx # Nil
       THEN /\ relCount' = RelInc("ctx")
            /\ cpc' = [cpc EXCEPT ![t] = "nilCtx"]
       ELSE /\ cpc' = [cpc EXCEPT ![t] = "idle"]
            /\ UNCHANGED relCount
    /\ UNCHANGED <<cfgNoLog, nw, w, made, failStep, wpc, op, ctxArg, cur, werr,
                   ret, ran, ncalls, panicked>>
    /\ LogStep(t)

\* ... w.ctx = nil }
NilCtx(t) ==
    /\ Alive
    /\ cpc[t] = "nilCtx"
    /\ w' = [w EXCEPT !.ctx = Nil]
    /\ cpc' = [cpc EXCEPT ![t] = "idle"]
    /\ UNCHANGED <<cfgVars, nw, made, relCount, failStep, wpc, op, ctxArg, cur,
                   werr, ret, ran, ncalls, panicked>>

----------------------------------------------------------------------------
(* Window.Frame, headless.go:129-134; Window.Screenshot, headless.go:137-148 *)

\* w.gpu.Clear(color.NRGBA{}): a method call on a nil interface panics.
Clear(t) ==
    /\ Alive
    /\ wpc[t] = "Clear"
    /\ IF w.gpu = Nil
       THEN /\ panicked' = "Frame"
            /\ UNCHANGED wpc
       ELSE /\ wpc' = [wpc EXCEPT ![t] = "gpuFrame"]
            /\ UNCHANGED panicked
    /\ UNCHANGED <<cfgVars, callVars, nw, w, made, relCount, failStep, cur,
                   werr, ran>>

\* Mutant of GpuFrame: a render failure releases the texture of the Window.
GpuFrameTeardown(t) ==
    /\ Alive
    /\ wpc[t] = "gpuFrame"
    /\ IF w.gpu = Nil
       THEN /\ panicked' = "Frame"
            /\ UNCHANGED <<wpc, werr, ran, w, relCount>>
       ELSE /\ \E e \in {NilErr, "errFrame"} :
                 /\ BodyEnd(t, e)
                 /\ IF e # NilErr
                    THEN /\ relCount' = RelInc("tex")
                         /\ w' = [w EXCEPT !.fboTex = Nil]
                    ELSE UNCHANGED <<w, relCount>>
            /\ UNCHANGED panicked
    /\ UNCHANGED <<cfgNoLog, callVars, nw, made, failStep, cur>>
    /\ LogStep(t)

\* return w.gpu.Frame(frame, w.fboTex, w.size)
GpuFrame(t) ==
    /\ Alive
    /\ wpc[t] = "gpuFrame"
    /\ IF w.gpu = Nil
       THEN /\ panicked' = "Frame"
            /\ UNCHANGED <<wpc, werr, ran>>
       ELSE /\ \E e \in {NilErr, "errFrame"} : BodyEnd(t, e)
            /\ UNCHANGED panicked
    /\ UNCHANGED <<cfgVars, callVars, nw, w, made, relCount, failStep, cur>>

\* img, err = driver.DownloadImage(w.dev, w.fboTex, ...); return err.
\* DownloadImage calls a method of the texture: a nil texture panics.
DownloadImage(t) ==
    /\ Alive
    /\ wpc[t] = "DownloadImage"
    /\ IF w.fboTex = Nil
       THEN /\ panicked' = "Screenshot"
            /\ UNCHANGED <<wpc, werr, ran>>
       ELSE /\ \E e \in {NilErr, "errDownload"} : BodyEnd(t, e)
            /\ UNCHANGED panicked
    /\ UNCHANGED <<cfgVars, callVars, nw, w, made, relCount, failStep, cur>>

\* Frame returns contextDo's error; Screenshot returns (nil, err) or (img, nil).
Return(t) ==
    /\ Alive
    /\ cpc[t] = "post"
    /\ op[t] \in {"Frame", "Screenshot"}
    /\ cpc' = [cpc EXCEPT ![t] = "idle"]
    /\ UNCHANGED <<cfgVars, nw, w, made, relCount, failStep, wpc, op, ctxArg,
                   cur, werr, ret, ran, ncalls, panicked>>

\* Caller t calls w.Release(), w.Frame(ops) or w.Screenshot() on the Window
\* NewWindow returned: each starts with contextDo(w.ctx, ...).
Call(t) ==
    /\ Alive
    /\ nw.state = "returned"
    /\ nw.w # Nil
    /\ cpc[t] = "idle"
    /\ wpc[t] \in {"none", "exit"}
    /\ ncalls < MaxCalls
    /\ \E o \in {"Release", "Frame", "Screenshot"} : Spawn(t, o, w.ctx)
    /\ ncalls' = ncalls + 1
    /\ UNCHANGED <<cfgVars, nw, w, made, relCount, failStep, cur, panicked>>

----------------------------------------------------------------------------
(* InputOp.Add, part_000:246-265 *)

\* Bound: the number of records written to the operation buffer.
MaxOps == 2

\* Event types (part_000:132-150).
Press == 1
Scroll == 64

Pt(x, y) == [X |-> x, Y |-> y]
Rectangle(x0, y0, x1, y1) == [Min |-> Pt(x0, y0), Max |-> Pt(x1, y1)]

\* The scroll bounds InputOp.Add is called with: three that contain the
\* origin, and one for each way of not containing it.
ScrollBoundsSet ==
    { Rectangle(0, 0, 0, 0), Rectangle(-1, -1, 1, 1), Rectangle(-5, 0, 0, 5),
      Rectangle(1, 0, 5, 5), Rectangle(-5, 0, -1, 5),
      Rectangle(0, 1, 5, 5), Rectangle(0, -5, 5, -1) }

\* The receivers InputOp.Add is called on.
InputOps ==
    [Tag : {Nil, "tagA", "tagB"}, Grab : BOOLEAN, Types : {Press, Scroll},
     ScrollBounds : ScrollBoundsSet]

\* bo.PutUint32(data, uint32(v)): the conversion keeps the low 32 bits of
\* v in two's complement, and they are written lowest byte first.  Byte k
\* of uint32(v) is floor(v / 256^k) mod 256, also for a negative v.
PutUint32(v) ==
    <<v % 256, (v \div 256) % 256, (v \div 65536) % 256, (v \div 16777216) % 256>>

\* ops.Write1(&o.Internal, n, ref): the record is appended to the data and
\* the reference to the refs.
Write1(o, rec, ref) ==
    [data |-> Append(o.data, rec), refs |-> Append(o.refs, ref)]

\* Mutant of AddPanic: only the horizontal axis of the bounds is checked.
AddPanicXOnly(iop) ==
    LET b == iop.ScrollBounds IN
    IF iop.Tag = Nil THEN "Tag must be non-nil"
    ELSE IF b.Min.X > 0 \/ b.Max.X < 0
    THEN "invalid scroll range value"
    ELSE "none"

\* The panic InputOp.Add ends with, or "none".
AddPanic(iop) ==
    LET b == iop.ScrollBounds IN
    IF iop.Tag = Nil THEN "Tag must be non-nil"
    ELSE IF b.Min.X > 0 \/ b.Max.X < 0 \/ b.Min.Y > 0 \/ b.Max.Y < 0
    THEN "invalid scroll range value"
    ELSE "none"

\* Mutant of InputRecord: the two axes of the bounds are written swapped.
InputRecordAxesSwapped(iop) ==
    [type |-> "TypePointerInput",
     grab |-> IF iop.Grab THEN 1 ELSE 0,
     types |-> iop.Types % 256,
     bounds |-> PutUint32(iop.ScrollBounds.Min.Y)
                \o PutUint32(iop.ScrollBounds.Min.X)
                \o PutUint32(iop.ScrollBounds.Max.Y)
                \o PutUint32(iop.ScrollBounds.Max.X)]

\* Mutant of InputRecord: the grab flag is written for every handler.
InputRecordAlwaysGrab(iop) ==
    [type |-> "TypePointerInput",
     grab |-> 1,
     types |-> iop.Types % 256,
     bounds |-> PutUint32(iop.ScrollBounds.Min.X)
                \o PutUint32(iop.ScrollBounds.Min.Y)
                \o PutUint32(iop.ScrollBounds.Max.X)
                \o PutUint32(iop.ScrollBounds.Max.Y)]

\* Mutant of InputRecord: the grab flag is never written.
InputRecordNoGrab(iop) ==
    [type |-> "TypePointerInput",
     grab |-> 0,
     types |-> iop.Types % 256,
     bounds |-> PutUint32(iop.ScrollBounds.Min.X)
                \o PutUint32(iop.ScrollBounds.Min.Y)
                \o PutUint32(iop.ScrollBounds.Max.X)
                \o PutUint32(iop.ScrollBounds.Max.Y)]

\* The bytes InputOp.Add writes: data[0] the opcode, data[1] the grab flag,
\* data[2] the types, data[3:19] the scroll bounds.
InputRecord(iop) ==
    [type |-> "TypePointerInput",
     grab |-> IF iop.Grab THEN 1 ELSE 0,
     types |-> iop.Types % 256,
     bounds |-> PutUint32(iop.ScrollBounds.Min.X)
                \o PutUint32(iop.ScrollBounds.Min.Y)
                \o PutUint32(iop.ScrollBounds.Max.X)
                \o PutUint32(iop.ScrollBounds.Max.Y)]

\* op.Add(o) for the receiver iop.
InputOpAddOf(iop) ==
    /\ lastAdd' = [called |-> TRUE, op |-> iop, before |-> ops]
    /\ IF AddPanic(iop) # "none"
       THEN /\ opsPanic' = AddPanic(iop)
            /\ UNCHANGED <<ops, decls>>
       ELSE /\ ops' = Write1(ops, InputRecord(iop), iop.Tag)
            /\ decls' = Append(decls, [d |-> "input", iop |-> iop])
            /\ UNCHANGED opsPanic
    /\ UNCHANGED <<stacks, handles, lastPop, popped, hit>>

InputOpAdd ==
    /\ opsPanic = "none"
    /\ Len(ops.data) < MaxOps
    /\ \E iop \in InputOps : InputOpAddOf(iop)
    /\ UNCHANGED hvars

----------------------------------------------------------------------------
(* AreaOp.Push, AreaStack.Pop, PassOp.Push, PassStack.Pop, part_000:186-239 *)

\* Bound: the number of records of a buffer written with Push and Pop.
MaxRecords == 5

\* areaKind (part_000:181-184).
areaRect == 0
areaEllipse == 1

\* Rect(size): a rectangular hit area.
Rect(size) == [kind |-> areaRect, rect |-> size]

\* The receivers AreaOp.Push is called on.
AreaOps == {Rect(Rectangle(-2, -2, 2, 2)), Rect(Rectangle(0, 0, 4, 4))}

\* ops.AreaStack and ops.PassStack.
StackKinds == {"AreaStack", "PassStack"}

\* ops.Write(&o.Internal, n): the record is appended to the data.
Write(o, rec) == [data |-> Append(o.data, rec), refs |-> o.refs]

\* ops.PushOp(&o.Internal, kind): the stack of the kind hands out its next
\* identifier, which becomes the current one and remembers the previous one.
PushOp(st, kind) ==
    LET id == st[kind].nextID + 1 IN
    [stacks |-> [st EXCEPT ![kind] = [nextID |-> id, currentID |-> id]],
     id |-> [id |-> id, prev |-> st[kind].currentID]]

\* ops.PopOp(o, kind, id, macroID) panics unless id is the current
\* identifier of the stack of the kind ...
PopOpPanics(st, kind, sid) == sid.id # st[kind].currentID

\* ... and makes the previous identifier the current one.
PopOp(st, kind, sid) == [st EXCEPT ![kind].currentID = sid.prev]

\* The bytes AreaOp.add writes: data[0] the opcode, data[1] the kind,
\* data[2:18] the rectangle.
AreaRecord(a) ==
    [type |-> "TypeArea",
     kind |-> a.kind % 256,
     bounds |-> PutUint32(a.rect.Min.X) \o PutUint32(a.rect.Min.Y)
                \o PutUint32(a.rect.Max.X) \o PutUint32(a.rect.Max.Y)]

PopAreaRecord == [type |-> "TypePopArea"]
PassRecord == [type |-> "TypePass"]
PopPassRecord == [type |-> "TypePopPass"]

\* The encoders write until the buffer is handed to the resolver.
EncAlive == opsPanic = "none" /\ Len(ops.data) < MaxRecords /\ ~hit.called

\* Mutant of PushEffect: the Push record is not written.
PushEffectNoRecord(kind, rec, decl) ==
    LET r == PushOp(stacks, kind) IN
    /\ stacks' = r.stacks
    /\ handles' = handles \cup {[kind |-> kind, id |-> r.id]}
    /\ UNCHANGED <<ops, decls, opsPanic, lastAdd, lastPop, popped, hit>>

\* id, macroID := ops.PushOp(...); the record is written; the stack value
\* is returned.
PushEffect(kind, rec, decl) ==
    LET r == PushOp(stacks, kind) IN
    /\ stacks' = r.stacks
    /\ ops' = Write(ops, rec)
    /\ handles' = handles \cup {[kind |-> kind, id |-> r.id]}
    /\ decls' = Append(decls, decl)
    /\ UNCHANGED <<opsPanic, lastAdd, lastPop, popped, hit>>

\* a.Push(o)
AreaOpPush ==
    /\ EncAlive
    /\ \E a \in AreaOps :
         PushEffect("AreaStack", AreaRecord(a), [d |-> "area", a |-> a])
    /\ UNCHANGED hvars

\* p.Push(o)
PassOpPush ==
    /\ EncAlive
    /\ PushEffect("PassStack", PassRecord, [d |-> "pass"])
    /\ UNCHANGED hvars

\* Mutant of PopEffect: the Pop record is written before ops.PopOp is called.
PopEffectWriteFirst(h, rec, decl) ==
    /\ lastPop' = [called |-> TRUE, h |-> h, before |-> ops, stacks |-> stacks]
    /\ ops' = Write(ops, rec)
    /\ decls' = Append(decls, decl)
    /\ IF PopOpPanics(stacks, h.kind, h.id)
       THEN /\ opsPanic' = "pop"
            /\ UNCHANGED <<stacks, popped>>
       ELSE /\ stacks' = PopOp(stacks, h.kind, h.id)
            /\ popped' = popped \cup {h}
            /\ UNCHANGED opsPanic
    /\ UNCHANGED <<handles, lastAdd, hit>>

\* ops.PopOp(o.ops, kind, o.id, o.macroID), and only then the Pop record is
\* written.
PopEffect(h, rec, decl) ==
    /\ lastPop' = [called |-> TRUE, h |-> h, before |-> ops, stacks |-> stacks]
    /\ IF PopOpPanics(stacks, h.kind, h.id)
       THEN /\ opsPanic' = "pop"
            /\ UNCHANGED <<ops, stacks, decls, popped>>
       ELSE /\ stacks' = PopOp(stacks, h.kind, h.id)
            /\ popped' = popped \cup {h}
            /\ ops' = Write(ops, rec)
            /\ decls' = Append(decls, decl)
            /\ UNCHANGED opsPanic
    /\ UNCHANGED <<handles, lastAdd, hit>>

\* o.Pop() on any AreaStack value the program holds.
AreaStackPop ==
    /\ EncAlive
    /\ \E h \in handles :
         /\ h.kind = "AreaStack"
         /\ PopEffect(h, PopAreaRecord, [d |-> "popArea"])
    /\ UNCHANGED hvars

\* p.Pop() on any PassStack value the program holds.
PassStackPop ==
    /\ EncAlive
    /\ \E h \in handles :
         /\ h.kind = "PassStack"
         /\ PopEffect(h, PopPassRecord, [d |-> "popPass"])
    /\ UNCHANGED hvars

----------------------------------------------------------------------------
(* The hit-test resolver of spec.md 4.2 *)

\* Priority (part_000:159-168).
Shared == 0
Foremost == 1
Grabbed == 2

\* The query positions and the scroll amounts of the events resolved.
Positions == {Pt(-1, -1), Pt(1, 1), Pt(2, 2)}
Scrolls == {Pt(-7, 7), Pt(0, 3), Pt(2, -2)}

\* int32(bo.Uint32(b[i:])): four bytes, lowest first, in two's complement.
GetInt32(b, i) ==
    b[i] + 256 * b[i + 1] + 65536 * b[i + 2]
    + 16777216 * (IF b[i + 3] >= 128 THEN b[i + 3] - 256 ELSE b[i + 3])

\* The rectangle of the 16 bytes AreaOp.add and InputOp.Add write.
DecodeRect(b) ==
    Rectangle(GetInt32(b, 1), GetInt32(b, 5), GetInt32(b, 9), GetInt32(b, 13))

Max2(a, b) == IF a >= b THEN a ELSE b
Min2(a, b) == IF a <= b THEN a ELSE b

\* Rectangle intersection.
Intersect(r, q) ==
    Rectangle(Max2(r.Min.X, q.Min.X), Max2(r.Min.Y, q.Min.Y),
              Min2(r.Max.X, q.Max.X), Min2(r.Max.Y, q.Max.Y))

\* Containment: the minimum is inside, the maximum is outside.
PtIn(p, r) ==
    /\ r.Min.X <= p.X /\ p.X < r.Max.X
    /\ r.Min.Y <= p.Y /\ p.Y < r.Max.Y

\* The scroll amount delivered: the incoming one clamped per axis.
ClampScroll(sc, b) ==
    Pt(Max2(b.Min.X, Min2(sc.X, b.Max.X)), Max2(b.Min.Y, Min2(sc.Y, b.Max.Y)))

\* The bit of an event kind in the types byte of a record.
HasType(types, t) == (types \div t) % 2 = 1

\* The priority of a handler discovered after the candidates cands.
PriorityOf(rec, tier, cands) ==
    IF rec.grab = 1 THEN Grabbed
    ELSE IF \A j \in 1..Len(cands) : cands[j].tier # tier THEN Foremost
    ELSE Shared

\* One decode pass over the records from i on: areas is the stack of
\* active rectangles, each intersected with its parent, passes the number
\* of open pass modes, nrefs the references consumed.
RECURSIVE Resolve(_, _, _, _, _, _, _, _)
Resolve(o, i, areas, passes, nrefs, cands, pos, sc) ==
    IF i > Len(o.data) THEN cands
    ELSE LET rec == o.data[i] IN
    IF rec.type = "TypeArea"
    THEN LET r == DecodeRect(rec.bounds)
             top == IF Len(areas) = 0 THEN r
                    ELSE Intersect(areas[Len(areas)], r)
         IN Resolve(o, i + 1, Append(areas, top), passes, nrefs, cands, pos, sc)
    ELSE IF rec.type = "TypePopArea"
    THEN Resolve(o, i + 1, SubSeq(areas, 1, Len(areas) - 1), passes, nrefs,
                 cands, pos, sc)
    ELSE IF rec.type = "TypePass"
    THEN Resolve(o, i + 1, areas, passes + 1, nrefs, cands, pos, sc)
    ELSE IF rec.type = "TypePopPass"
    THEN Resolve(o, i + 1, areas, passes - 1, nrefs, cands, pos, sc)
    ELSE LET inside == Len(areas) = 0 \/ PtIn(pos, areas[Len(areas)])
             cand == [rec |-> i,
                      tag |-> o.refs[nrefs + 1],
                      tier |-> passes,
                      priority |-> PriorityOf(rec, passes, cands),
                      scroll |-> ClampScroll(sc, DecodeRect(rec.bounds))]
         IN Resolve(o, i + 1, areas, passes, nrefs + 1,
                    IF inside /\ HasType(rec.types, Scroll)
                    THEN Append(cands, cand) ELSE cands,
                    pos, sc)

\* A Scroll event at a position is resolved against the finished buffer:
\* every Push of it has been popped.
HitTest ==
    /\ opsPanic = "none"
    /\ ~hit.called
    /\ \A k \in StackKinds : stacks[k].currentID = 0
    /\ \E pos \in Positions, sc \in Scrolls :
         hit' = [called |-> TRUE, pos |-> pos, scroll |-> sc,
                 events |-> Resolve(ops, 1, <<>>, 0, 0, <<>>, pos, sc)]
    /\ UNCHANGED <<ops, opsPanic, lastAdd, stacks, handles, decls, lastPop,
                   popped>>
    /\ UNCHANGED hvars

OInit ==
    /\ ops = [data |-> <<>>, refs |-> <<>>]
    /\ opsPanic = "none"
    /\ lastAdd = [called |-> FALSE,
                  op |-> [Tag |-> Nil, Grab |-> FALSE, Types |-> Press,
                          ScrollBounds |-> Rectangle(0, 0, 0, 0)],
                  before |-> [data |-> <<>>, refs |-> <<>>]]
    /\ stacks = [k \in StackKinds |-> [nextID |-> 0, currentID |-> 0]]
    /\ handles = {}
    /\ decls = <<>>
    /\ popped = {}
    /\ lastPop = [called |-> FALSE,
                  h |-> [kind |-> "AreaStack", id |-> [id |-> 0, prev |-> 0]],
                  before |-> [data |-> <<>>, refs |-> <<>>],
                  stacks |-> [k \in StackKinds |->
                                 [nextID |-> 0, currentID |-> 0]]]
    /\ hit = [called |-> FALSE, pos |-> Pt(0, 0), scroll |-> Pt(0, 0),
              events |-> <<>>]

----------------------------------------------------------------------------

HInit ==
    /\ newContextPrimary \in {Nil, "primary"}
    /\ newContextFallback \in {Nil, "fallback"}
    /\ nc = [called |-> FALSE, outs |-> [s \in Strategies |-> "ok"],
             res |-> [ctx |-> Nil, err |-> NilErr, invoked |-> <<>>]]
    /\ nw = [state |-> "none", w |-> Nil, err |-> NilErr]
    /\ w = [size |-> <<0, 0>>, ctx |-> Nil, dev |-> Nil, gpu |-> Nil,
            fboTex |-> Nil]
    /\ made = {}
    /\ relCount = [r \in Res |-> 0]
    /\ failStep = "none"
    /\ cpc = [t \in Callers |-> "idle"]
    /\ wpc = [t \in Callers |-> "none"]
    /\ op = [t \in Callers |-> "none"]
    /\ ctxArg = [t \in Callers |-> Nil]
    /\ cur = [t \in Callers |-> FALSE]
    /\ werr = [t \in Callers |-> NilErr]
    /\ ret = [t \in Callers |-> NilErr]
    /\ ran = [t \in Callers |-> 0]
    /\ ncalls = 0
    /\ panicked = "none"
    /\ log = <<>>

Init == HInit /\ OInit

\* The steps of the calls in flight.
Work(t) ==
    \/ MakeCurrent(t)
    \/ NewDevice(t)
    \/ NewTexture(t)
    \/ GpuNew(t)
    \/ FailRelTex(t)
    \/ FailRelDev(t)
    \/ Assign(t)
    \/ ReleaseCurrent(t)
    \/ Send(t)
    \/ NewWindowReturn(t)
    \/ ReleaseField(t)
    \/ NilField(t)
    \/ ReleaseCtx(t)
    \/ NilCtx(t)
    \/ Clear(t)
    \/ GpuFrame(t)
    \/ DownloadImage(t)
    \/ Return(t)

\* Callers run concurrently.
Next == \E t \in Callers : CallNewWindow(t) \/ Call(t) \/ Work(t)

Spec == Init /\ [][Next]_vars

\* No call in flight other than t's.
OthersIdle(t) ==
    \A u \in Callers \ {t} : cpc[u] = "idle" /\ wpc[u] \in {"none", "exit"}

\* Calls are issued one after another: each after the previous has returned.
CallSeq(t) == OthersIdle(t) /\ Call(t)

NextSeq == \E t \in Callers : CallNewWindow(t) \/ CallSeq(t) \/ Work(t)

SpecSeq == Init /\ [][NextSeq]_vars

\* Both backends are configured.
InitOps == Init /\ newContextPrimary = "primary" /\ newContextFallback = "fallback"

\* Concurrent callers under a scheduler that runs every goroutine that can
\* take a step: the steps of a call in flight are not postponed forever.
\* Bound: the number of Frame, Screenshot and Release calls issued.
MaxLiveCalls == 2

CallLive(t) == ncalls < MaxLiveCalls /\ Call(t)

NextLive == \E t \in Callers : CallNewWindow(t) \/ CallLive(t) \/ Work(t)

SpecLive ==
    InitOps /\ [][NextLive]_vars /\ \A t \in Callers : WF_vars(Work(t))

\* The encoders alone, on one operation buffer.

NextOps == InputOpAdd

SpecOps == InitOps /\ [][NextOps]_vars

\* The handlers the buffers of SpecEnc declare.
EncInputOps ==
    [Tag : {"tagA"}, Grab : BOOLEAN, Types : {Scroll},
     ScrollBounds : {Rectangle(-1, -1, 1, 1), Rectangle(-5, 0, 0, 5)}]
    \cup [Tag : {"tagA"}, Grab : {FALSE}, Types : {Press},
          ScrollBounds : {Rectangle(0, 0, 0, 0)}]

EncInputOpAdd ==
    /\ EncAlive
    /\ \E iop \in EncInputOps : InputOpAddOf(iop)
    /\ UNCHANGED hvars

\* One frame's buffer written with all the encoders, then resolved once.
NextEnc ==
    \/ AreaOpPush
    \/ AreaStackPop
    \/ PassOpPush
    \/ PassStackPop
    \/ EncInputOpAdd
    \/ HitTest

SpecEnc == InitOps /\ [][NextEnc]_vars

----------------------------------------------------------------------------
(* Claims *)

Returned(t) == op[t] # "none" /\ cpc[t] \in {"post", "nilCtx", "idle"}

\* C1: when texture creation fails in NewWindow (the context was obtained
\* and activated, the device created), NewWindow has released the device and
\* the context and returns a non-nil error and no Window.
C1_TextureFailureUnwinds ==
    (nw.state = "returned" /\ failStep = "texture") =>
        /\ relCount["dev"] = 1
        /\ relCount["ctx"] = 1
        /\ nw.err # NilErr
        /\ nw.w = Nil

\* The Window was constructed in full and a Release has released all of it.
ReleasedInFull ==
    /\ nw.w # Nil
    /\ failStep = "none"
    /\ \A r \in Res : r \in made /\ relCount[r] = 1
    /\ w.ctx = Nil /\ w.dev = Nil /\ w.gpu = Nil /\ w.fboTex = Nil

\* C2: Release is idempotent: a Release call on an already released Window
\* completes normally (it does not panic), and no resource is released more
\* than once over any sequence of Release calls.
C2_ReleaseIdempotent ==
    /\ ReleasedInFull => panicked # "Release"
    /\ \A r \in Res : relCount[r] <= 1

PrimarySet == newContextPrimary # Nil
FallbackSet == newContextFallback # Nil

\* C3: newContext tries primary then fallback, skips the absent ones, and
\* returns the context of the first strategy that succeeds with no error;
\* no strategy after the first success is invoked, no absent strategy is
\* invoked, and a failing primary does not stop a succeeding fallback.
C3_FirstSuccessWins ==
    nc.called =>
        LET pOK == PrimarySet /\ nc.outs["primary"] = "ok"
            fOK == FallbackSet /\ nc.outs["fallback"] = "ok"
            r == nc.res
        IN  /\ pOK => r = [ctx |-> "ctxPrimary", err |-> NilErr,
                           invoked |-> <<"primary">>]
            /\ (~pOK /\ fOK) =>
                   r = [ctx |-> "ctxFallback", err |-> NilErr,
                        invoked |-> IF PrimarySet
                                    THEN <<"primary", "fallback">>
                                    ELSE <<"fallback">>]
            /\ (~pOK /\ ~fOK) => r.ctx = Nil /\ r.err # NilErr
            /\ \A i \in 1..Len(r.invoked) :
                   /\ r.invoked[i] = "primary" => PrimarySet
                   /\ r.invoked[i] = "fallback" => FallbackSet

\* C3 witness: the primary strategy failed and the fallback's context was
\* returned.
C3_Witness ==
    /\ nc.called
    /\ PrimarySet /\ nc.outs["primary"] = "fail"
    /\ nc.res.ctx = "ctxFallback" /\ nc.res.err = NilErr
    /\ w.ctx = "ctxFallback"

\* C4: when no strategy yields a context, newContext returns the error of
\* the earliest tried strategy that failed if some strategy is configured,
\* and the 'no available backend' error exactly when none is configured.
C4_FirstErrorReported ==
    (nc.called /\ nc.res.ctx = Nil) =>
        /\ (PrimarySet \/ FallbackSet) =>
               nc.res.err = (IF PrimarySet THEN "errPrimary" ELSE "errFallback")
        /\ (~PrimarySet /\ ~FallbackSet) => nc.res.err = ErrNoBackend
        /\ nw.err = nc.res.err

\* C4 witness: both strategies are configured, both failed, and the error
\* returned is the primary's.
C4_Witness ==
    /\ nc.called
    /\ PrimarySet /\ FallbackSet
    /\ nc.res.invoked = <<"primary", "fallback">>
    /\ nc.res.ctx = Nil
    /\ nw.err = "errPrimary"

\* C5: when a construction step of NewWindow after the context was obtained
\* fails (activation, device, texture or renderer creation), every resource
\* created so far, the context included, has been released exactly once when
\* NewWindow returns, and NewWindow returns the failing step's error.
C5_ConstructionFailureUnwinds ==
    (nw.state = "returned"
       /\ failStep \in {"activate", "device", "texture", "renderer"}) =>
        /\ \A r \in made : relCount[r] = 1
        /\ nw.err # NilErr
        /\ nw.w = Nil

\* C6: lifetime nesting, in every reachable state of a Window whose
\* construction met no failure, whatever the outcome of the activations: the
\* Context is not released while the Device is unreleased, and the Device
\* is not released while the Texture or the Renderer is unreleased.
C6_LifetimeNesting ==
    failStep = "none" =>
        /\ relCount["ctx"] > 0 => ~Live("dev")
        /\ relCount["dev"] > 0 => (~Live("tex") /\ ~Live("gpu"))

\* The callers whose worker has the context current.
Active == {t \in Callers : cur[t]}

BodyLabels ==
    {"NewDevice", "NewTexture", "gpuNew", "failRelTex", "failRelDev", "assign",
     "relTex", "nilTex", "relGpu", "nilGpu", "relDev", "nilDev",
     "Clear", "gpuFrame", "DownloadImage"}

\* C8: in a contextDo call whose activation succeeds the order is
\* MakeCurrent, work (once), ReleaseCurrent, return: the work runs with the
\* context current, the error is sent after ReleaseCurrent, and when the
\* caller has resumed the work has run exactly once, the worker no longer
\* has the context current and the caller holds exactly the work's error.
C8_ContextDoOrder ==
    \A t \in Callers :
        /\ wpc[t] \in BodyLabels => (cur[t] /\ ran[t] = 0)
        /\ wpc[t] = "ReleaseCurrent" => (cur[t] /\ ran[t] = 1)
        /\ wpc[t] = "send" => (~cur[t] /\ ran[t] = 1)
        /\ (Returned(t) /\ ret[t] # "errMakeCurrent") =>
               /\ ran[t] = 1
               /\ ~cur[t]
               /\ wpc[t] = "exit"
               /\ ret[t] = werr[t]

\* C8 witness: a Frame whose activation succeeded returned the work's error.
C8_Witness ==
    \E t \in Callers :
        /\ op[t] = "Frame" /\ cpc[t] = "idle"
        /\ ret[t] = "errFrame" /\ ran[t] = 1 /\ ~cur[t]

\* C9: no step of a Frame or Screenshot call, whatever it returns, releases
\* or nils a resource of the Window or changes its size: a call that
\* returns an error leaves the Window as it found it.
C9_FrameKeepsWindow ==
    [][\A t \in Callers :
          (op[t] \in {"Frame", "Screenshot"} /\ op'[t] = op[t]
             /\ (cpc'[t] # cpc[t] \/ wpc'[t] # wpc[t]))
          => (w' = w /\ relCount' = relCount /\ made' = made /\ nw' = nw)]_vars

\* C9 witness: a Frame returned an error (a render failure or an activation
\* failure) and the Window still holds its four live resources.
C9_Witness ==
    \E t \in Callers :
        /\ op[t] = "Frame" /\ cpc[t] = "idle"
        /\ ret[t] \in {"errFrame", "errMakeCurrent"}
        /\ w.ctx # Nil /\ w.dev # Nil /\ w.gpu # Nil /\ w.fboTex # Nil
        /\ w.size \in Sizes
        /\ \A r \in Res : Live(r)

\* C10: InputOp.Add panics if and only if the tag is nil or the scroll
\* bounds do not contain the origin on both axes; when it panics the buffer
\* is as before, and when it does not exactly one input record (and its
\* tag reference) has been appended after the unchanged earlier content.
C10_AddFailsIff ==
    lastAdd.called =>
        LET iop == lastAdd.op
            b == iop.ScrollBounds
            bad == \/ iop.Tag = Nil
                   \/ b.Min.X > 0 \/ b.Max.X < 0 \/ b.Min.Y > 0 \/ b.Max.Y < 0
            n == Len(lastAdd.before.data)
        IN  /\ (opsPanic # "none") <=> bad
            /\ bad => ops = lastAdd.before
            /\ ~bad =>
                 /\ Len(ops.data) = n + 1
                 /\ SubSeq(ops.data, 1, n) = lastAdd.before.data
                 /\ ops.data[n + 1].type = "TypePointerInput"
                 /\ ops.refs = Append(lastAdd.before.refs, iop.Tag)

\* C10 witness: Add with a tag and the bounds {min:(1,0), max:(5,5)} panicked
\* after an earlier Add had appended a record.
C10_Witness ==
    /\ lastAdd.called
    /\ lastAdd.op.Tag # Nil
    /\ lastAdd.op.ScrollBounds = Rectangle(1, 0, 5, 5)
    /\ opsPanic # "none"
    /\ Len(ops.data) = 1

----------------------------------------------------------------------------
(* The Push and Pop encoders *)

PushType(kind) == IF kind = "AreaStack" THEN "TypeArea" ELSE "TypePass"
PopType(kind) == IF kind = "AreaStack" THEN "TypePopArea" ELSE "TypePopPass"

\* The pushes of a kind that are open after the records of data, oldest
\* first, read off the records alone: the n-th Push record of the kind is
\* push n, and a Pop record closes the youngest open push.
RECURSIVE OpenFrom(_, _, _, _, _)
OpenFrom(kind, data, i, n, open) ==
    IF i > Len(data) THEN open
    ELSE IF data[i].type = PushType(kind)
         THEN OpenFrom(kind, data, i + 1, n + 1, Append(open, n + 1))
    ELSE IF data[i].type = PopType(kind) /\ Len(open) > 0
         THEN OpenFrom(kind, data, i + 1, n, SubSeq(open, 1, Len(open) - 1))
    ELSE OpenFrom(kind, data, i + 1, n, open)

Open(kind, data) == OpenFrom(kind, data, 1, 0, <<>>)

Topmost(kind, data) ==
    LET open == Open(kind, data) IN
    IF Len(open) = 0 THEN 0 ELSE open[Len(open)]

\* C11: a Pop succeeds exactly when its stack value is the one the topmost
\* open Push of its kind returned: it then appends one Pop record of its
\* kind and closes that push. A Pop with any other stack value (of a push
\* that is not topmost, or that was already popped) is fatal, writes no
\* record and leaves the stack state as it was.
C11_PopOnlyTopmost ==
    [][lastPop' # lastPop =>
         LET h == lastPop'.h IN
         IF h.id.id = Topmost(h.kind, ops.data)
         THEN /\ opsPanic' = "none"
              /\ ops'.data = Append(ops.data, [type |-> PopType(h.kind)])
              /\ Open(h.kind, ops'.data)
                   = SubSeq(Open(h.kind, ops.data), 1,
                            Len(Open(h.kind, ops.data)) - 1)
              /\ stacks'[h.kind].currentID = Topmost(h.kind, ops'.data)
         ELSE /\ opsPanic' = "pop"
              /\ ops' = ops
              /\ stacks' = stacks]_vars

\* A push was popped, and a later Pop of a push that was not topmost (two
\* pushes of its kind had been made) was fatal.
C11_Witness ==
    /\ opsPanic = "pop"
    /\ lastPop.called
    /\ \E i \in 1..Len(ops.data) : ops.data[i].type = PopType(lastPop.h.kind)
    /\ stacks[lastPop.h.kind].nextID >= 2
    /\ lastPop.h.id.id # Topmost(lastPop.h.kind, ops.data)
    /\ Topmost(lastPop.h.kind, ops.data) # 0
\* The number of records of a type among the first n records.
CountOf(type, data, n) == Cardinality({i \in 1..n : data[i].type = type})

\* In every prefix of the buffer, no more Pops than Pushes of each kind.
PrefixBalanced ==
    \A kind \in StackKinds : \A n \in 0..Len(ops.data) :
        CountOf(PopType(kind), ops.data, n) <= CountOf(PushType(kind), ops.data, n)

\* Once every stack value of a kind has been popped, the buffer has as
\* many Pops as Pushes of the kind.
BalancedWhenAllPopped ==
    \A kind \in StackKinds :
        {h \in handles : h.kind = kind} \subseteq popped
            => CountOf(PopType(kind), ops.data, Len(ops.data))
                 = CountOf(PushType(kind), ops.data, Len(ops.data))

\* A Push that returned a stack value, and a Pop that returned, appended
\* one record of their kind and left the records before it as they were.
AppendsOneRecord ==
    /\ \A h \in handles' \ handles :
          /\ Len(ops'.data) = Len(ops.data) + 1
          /\ SubSeq(ops'.data, 1, Len(ops.data)) = ops.data
          /\ ops'.data[Len(ops'.data)].type = PushType(h.kind)
    /\ \A h \in popped' \ popped :
          /\ Len(ops'.data) = Len(ops.data) + 1
          /\ SubSeq(ops'.data, 1, Len(ops.data)) = ops.data
          /\ ops'.data[Len(ops'.data)].type = PopType(h.kind)

\* C17: in the buffer written by Push and Pop calls none of which was
\* fatal, every prefix has at most as many Pop records as Push records of
\* each kind, every Push and Pop that returned appended exactly one record
\* of its kind without altering the records before it, and once every
\* stack value has been popped the Pops and Pushes are as many.
C17_PushPopBalanced ==
    /\ [](opsPanic # "pop" => PrefixBalanced /\ BalancedWhenAllPopped)
    /\ [][AppendsOneRecord]_vars

\* Nested pushes of both kinds, all popped again.
C17_Witness ==
    /\ opsPanic = "none"
    /\ \A kind \in StackKinds :
          /\ {h \in handles : h.kind = kind} # {}
          /\ {h \in handles : h.kind = kind} \subseteq popped
    /\ Len(ops.data) = 4

----------------------------------------------------------------------------
(* The resolver against the declarations *)

\* The events of the resolved Scroll event, by the record of their handler.
Events == {hit.events[j] : j \in 1..Len(hit.events)}

\* The Area declarations open at record i, read off the declarations.
RECURSIVE DeclAreasFrom(_, _, _)
DeclAreasFrom(i, j, open) ==
    IF j >= i THEN open
    ELSE IF decls[j].d = "area" THEN DeclAreasFrom(i, j + 1, Append(open, j))
    ELSE IF decls[j].d = "popArea"
         THEN DeclAreasFrom(i, j + 1, SubSeq(open, 1, Len(open) - 1))
    ELSE DeclAreasFrom(i, j + 1, open)

DeclAreas(i) == DeclAreasFrom(i, 1, <<>>)

\* The position is inside every area the handler of record i was declared in.
DeclInside(i, pos) ==
    \A k \in 1..Len(DeclAreas(i)) : PtIn(pos, decls[DeclAreas(i)[k]].a.rect)

\* The records of the handlers that want Scroll events.
ScrollHandlers ==
    {i \in 1..Len(decls) : decls[i].d = "input" /\ decls[i].iop.Types = Scroll}

\* C12: every Scroll event delivered to a handler carries a scroll amount
\* inside the ScrollBounds the handler was declared with, on both axes,
\* whatever the incoming amount was.
C12_ScrollWithinBounds ==
    hit.called =>
        \A e \in Events :
            LET b == decls[e.rec].iop.ScrollBounds IN
            /\ b.Min.X <= e.scroll.X /\ e.scroll.X <= b.Max.X
            /\ b.Min.Y <= e.scroll.Y /\ e.scroll.Y <= b.Max.Y

\* An incoming amount outside the bounds on both axes was delivered, clamped,
\* to a handler whose bounds are not symmetric.
C12_Witness ==
    /\ hit.called
    /\ \E e \in Events :
         /\ decls[e.rec].iop.ScrollBounds = Rectangle(-5, 0, 0, 5)
         /\ hit.scroll = Pt(2, -2)
         /\ e.scroll = Pt(0, 0)

DeclPasses(i) ==
    Cardinality({j \in 1..(i - 1) : decls[j].d = "pass"})
    - Cardinality({j \in 1..(i - 1) : decls[j].d = "popPass"})

\* The candidates declared without Grab.
NonGrabbing == {e \in Events : ~decls[e.rec].iop.Grab}

\* The candidates declared in the same area as e: between the same Push
\* and Pop.
SameArea(e) == {f \in Events : DeclAreas(f.rec) = DeclAreas(e.rec)}

----------------------------------------------------------------------------
(* The order of creations and releases *)

RECURSIVE IsSubseq(_, _)
IsSubseq(a, b) ==
    IF a = <<>> THEN TRUE
    ELSE IF b = <<>> THEN FALSE
    ELSE IF Head(a) = Head(b) THEN IsSubseq(Tail(a), Tail(b))
    ELSE IsSubseq(a, Tail(b))

IsPrefix(a, b) == Len(a) <= Len(b) /\ a = SubSeq(b, 1, Len(a))

Reverse(a) == [i \in 1..Len(a) |-> a[Len(a) + 1 - i]]

IsRelease(e) == e.ev = "release"
IsCreate(e) == e.ev = "create"

\* The releases Release call n made: the resource, and whether the context
\* was current.
ReleasesOf(n) ==
    LET ByCall(e) == IsRelease(e) /\ e.op = "Release" /\ e.call = n
        evs == SelectSeq(log, ByCall)
    IN [i \in 1..Len(evs) |-> <<evs[i].r, evs[i].active>>]

ReleaseProtocol ==
    <<(<<"tex", TRUE>>), (<<"gpu", TRUE>>), (<<"dev", TRUE>>),
      (<<"ctx", FALSE>>)>>

\* C15: the releases of one Release call come in the order Texture,
\* Renderer, Device, each with the Context current, and then the Context
\* itself, no longer current; a Release that released the Texture skips
\* none of the later ones.
C15_ReleaseProtocol ==
    \A n \in 1..ncalls :
        /\ IsSubseq(ReleasesOf(n), ReleaseProtocol)
        /\ (\E i \in 1..Len(ReleasesOf(n)) : ReleasesOf(n)[i][1] = "tex")
             => IsPrefix(ReleasesOf(n), ReleaseProtocol)

\* A Release call activated the context and went through the whole protocol.
C15_Witness ==
    \E n \in 1..ncalls : ReleasesOf(n) = ReleaseProtocol

\* The resources in the order NewWindow created them, and in the order they
\* were released.
Created ==
    LET evs == SelectSeq(log, IsCreate) IN [i \in 1..Len(evs) |-> evs[i].r]
Released ==
    LET evs == SelectSeq(log, IsRelease) IN [i \in 1..Len(evs) |-> evs[i].r]

\* NewWindow built all four resources and returned the Window, and all four
\* have been released.
BuiltAndReleased ==
    /\ nw.state = "returned" /\ nw.err = NilErr /\ failStep = "none"
    /\ Len(Released) = Cardinality(Res)

\* C16 as stated: a Window that was constructed and then released had its
\* resources released in the exact reverse of the order of their creation.
C16_ReleaseReversesCreation ==
    BuiltAndReleased => Released = Reverse(Created)

\* C16, amended: the release order is the reverse of the creation order
\* except for Texture and Renderer: the Texture, created before the
\* Renderer, is also released before it. Created are Context, Device,
\* Texture, Renderer; released are Texture, Renderer, Device, Context.
C16_ReverseButTextureFirst ==
    BuiltAndReleased =>
        /\ Created = <<"ctx", "dev", "tex", "gpu">>
        /\ Released = <<"tex", "gpu", "dev", "ctx">>
        /\ Released = [Reverse(Created) EXCEPT ![1] = Reverse(Created)[2],
                                               ![2] = Reverse(Created)[1]]

\* A Window was built in full and released in full.
C16_Witness ==
    /\ BuiltAndReleased
    /\ Len(Created) = Cardinality(Res)
    /\ \A r \in Res : relCount[r] = 1

\* C18: when NewWindow has returned a Window and a nil error, the Window
\* holds a Context, a Device, a Texture and a Renderer, none of them nil,
\* and no worker has the Context current.
C18_ReturnedWindowComplete ==
    nw.state = "returned" /\ nw.err = NilErr /\ ncalls = 0 =>
        /\ nw.w = "w"
        /\ w.ctx # Nil /\ w.dev # Nil /\ w.fboTex # Nil /\ w.gpu # Nil
        /\ \A t \in Callers : ~cur[t]

\* The worker of the call of t holds the error of a failed MakeCurrent.
ActivationFailed(t) == werr[t] = "errMakeCurrent"

\* C19: in a contextDo call whose MakeCurrent failed, the worker goes
\* nowhere but to the send of the error: the work function is not run, the
\* worker is never at ReleaseCurrent and never has the context current, and
\* the caller, once resumed, holds exactly the activation error; a Frame,
\* Screenshot or Release in that case creates and releases no Device,
\* Texture or Renderer.
C19_FailedActivationSkipsWork ==
    \A t \in Callers :
        ActivationFailed(t) =>
            /\ ran[t] = 0
            /\ ~cur[t]
            /\ wpc[t] \in {"sendErr", "exit"}
            /\ cpc[t] # "wait" => (ret[t] = "errMakeCurrent" /\ wpc[t] = "exit")
            /\ (op[t] \in {"Frame", "Screenshot", "Release"} /\ cpc[t] # "idle")
                 => \A i \in 1..Len(log) :
                        (log[i].call = ncalls /\ log[i].op = op[t])
                            => log[i].r = "ctx"

\* A Release whose activation failed has returned: the caller got the
\* activation error from contextDo, the Window still holds its Device, Texture and
\* Renderer unreleased, and only the Context was released.
C19_Witness ==
    \E t \in Callers :
        /\ ActivationFailed(t) /\ op[t] = "Release" /\ cpc[t] = "idle"
        /\ ret[t] = "errMakeCurrent"
        /\ w.dev # Nil /\ w.gpu # Nil /\ w.fboTex # Nil /\ w.ctx = Nil
        /\ relCount = [r \in Res |-> IF r = "ctx" THEN 1 ELSE 0]

\* C20: a caller blocked in contextDo is eventually resumed, unless the
\* program has ended in a panic: whichever way the worker goes it sends
\* once, and a worker that has exited has been received from, also when
\* the calls of several callers are in flight together.
C20_ContextDoReturns ==
    /\ \A t \in Callers :
          (cpc[t] = "wait") ~> (cpc[t] # "wait" \/ ~Alive)
    /\ [](\A t \in Callers :
            /\ wpc[t] = "exit" => cpc[t] # "wait"
            /\ Returned(t) => wpc[t] = "exit")

\* One caller has been resumed with the activation error while the call of
\* another caller is in flight with its work function running.
C20_Witness ==
    \E t, u \in Callers :
        /\ t # u
        /\ Returned(t) /\ wpc[t] = "exit" /\ ret[t] = "errMakeCurrent"
        /\ cpc[u] = "wait" /\ wpc[u] \in BodyLabels
====
